---------------------------- MODULE Spec2Model ----------------------------
(***************************************************************************)
(* Forest fire cellular automaton of sem5/SimulationAndModelling/          *)
(* simulation.py: the cell grid, the parameter sliders, the derived        *)
(* fire_prob and the event / frame loop of ForestFireSimulation.run.       *)
(*                                                                         *)
(* Units.  The program computes with floats; the model computes with       *)
(* exact integers in fixed units:                                          *)
(*   tree_density, wind_str      tenths            (0.6  is 6)             *)
(*   moisture                    hundredths        (0.2  is 20)            *)
(*   temperature, wind_dir       degrees C / degrees of bearing            *)
(*   fire_prob                   1/2000            (0.3  is 600)           *)
(*   wind bias                   1/1000            (1.0  is 1000)          *)
(*   cosine                      1/100             (cos 45 is 71)          *)
(*   ignition probability and random draw: numerators over ProbDen         *)
(* Wind directions are multiples of 45 degrees, so that every angular      *)
(* difference is one whose cosine the table CosDeg holds.                  *)
(***************************************************************************)
EXTENDS Integers, Sequences, FiniteSets

VARIABLES
    GRID_HEIGHT,   \* simulation.py:10, fixed for the life of a run
    GRID_WIDTH,    \* simulation.py:10, fixed for the life of a run
    grid,          \* self.grid: cell <<y, x>> -> cell state
    running,       \* self.running
    paused,        \* self.paused
    sliders,       \* self.sliders[i].val, i in 0..4
    tree_density,  \* self.tree_density
    wind_dir,      \* self.wind_dir
    wind_str,      \* self.wind_str
    moisture,      \* self.moisture
    temperature,   \* self.temperature
    fire_prob,     \* self.fire_prob
    last           \* the handler that ran last and the cell it addressed

vars == <<GRID_HEIGHT, GRID_WIDTH, grid, running, paused, sliders,
          tree_density, wind_dir, wind_str, moisture, temperature,
          fire_prob, last>>

--------------------------------------------------------------------------
(* Bounds of the model *)

\* The driver is explored on every grid shape of at most MaxCells cells.
MaxCells == 4

\* Pixels per cell on screen and the grid's vertical offset on screen.
cell_size == 2
grid_offset_y == 1

\* The shape on which one isolated step is explored.
StepHeight == 3
StepWidth == 4

--------------------------------------------------------------------------
(* Cell states *)

EMPTY == 0
TREE == 1
BURNING == 2
BURNT == 3

CELL_STATES == {EMPTY, TREE, BURNING, BURNT}

--------------------------------------------------------------------------
(* Helpers *)

Min2(a, b) == IF a <= b THEN a ELSE b
Max2(a, b) == IF a >= b THEN a ELSE b

clamp(val, lo, hi) == Max2(lo, Min2(hi, val))

Abs(a) == IF a < 0 THEN -a ELSE a

\* The cells of an h x w grid.
CellsOf(h, w) == (0 .. h - 1) \X (0 .. w - 1)

Cells == CellsOf(GRID_HEIGHT, GRID_WIDTH)

\* The cells in row-major order, the order of np.argwhere.
RowMajor == [k \in 1 .. GRID_HEIGHT * GRID_WIDTH |->
                <<(k - 1) \div GRID_WIDTH, (k - 1) % GRID_WIDTH>>]

AnyCell(g, s) == \E c \in DOMAIN g : g[c] = s

CountCells(g, s) == Cardinality({c \in DOMAIN g : g[c] = s})

--------------------------------------------------------------------------
(* Sliders *)

\* Slider(px, sy + sp * i, pw, 8, min_v, max_v, val, ...), i = 0..4
SliderMin == [i \in 0 .. 4 |-> <<1, 0, 0, 0, 0>>[i + 1]]
SliderMax == [i \in 0 .. 4 |-> <<9, 360, 10, 50, 50>>[i + 1]]
SliderDefault == [i \in 0 .. 4 |-> <<6, 0, 5, 20, 25>>[i + 1]]

\* Mutant of update_val: the value is not clamped to the slider's range.
update_val_unclamped(i, t) ==
    SliderMin[i] + (t * (SliderMax[i] - SliderMin[i])) \div 2

\* Slider.update_val(mx), with the pointer at t half track widths right of
\* the track's left end: (mx - rect.x) / rect.width = t / 2.
update_val(i, t) ==
    clamp(SliderMin[i] + (t * (SliderMax[i] - SliderMin[i])) \div 2,
          SliderMin[i], SliderMax[i])

--------------------------------------------------------------------------
(* Derived fire probability *)

\* temp_factor = clamp((temperature - 10) / 40, 0, 1), in fortieths
temp_factor(temp) == clamp(temp - 10, 0, 40)

\* Mutant of derive_fire_probability: the result is not clamped.
derive_unclamped(temp, ws, m) ==
    300 + 25 * temp_factor(temp) + 40 * ws - 8 * m

\* Mutant of derive_fire_probability: moisture is added, not subtracted.
derive_moisture_raises(temp, ws, m) ==
    clamp(300 + 25 * temp_factor(temp) + 40 * ws + 8 * m, 100, 1900)

\* clamp(0.15 + 0.5 * temp_factor + 0.2 * wind_str - 0.4 * moisture, 0.05, 0.95)
derive_fire_probability(temp, ws, m) ==
    clamp(300 + 25 * temp_factor(temp) + 40 * ws - 8 * m, 100, 1900)

--------------------------------------------------------------------------
(* Wind bias *)

\* Mutant of Offsets: only the four orthogonal neighbours.
OffsetsOrthogonal == << <<-1, 0>>, <<1, 0>>, <<0, -1>>, <<0, 1>> >>

\* The neighbour offsets (dy, dx), in the order _simulate_step visits them.
Offsets == << <<-1, 0>>, <<1, 0>>, <<0, -1>>, <<0, 1>>,
              <<-1, -1>>, <<-1, 1>>, <<1, -1>>, <<1, 1>> >>

\* math.atan2(dx, -dy) * 180 / math.pi for the eight offsets
Bearing(dy, dx) ==
    CASE dy = -1 /\ dx = 0  -> 0
      [] dy = -1 /\ dx = 1  -> 45
      [] dy = 0  /\ dx = 1  -> 90
      [] dy = 1  /\ dx = 1  -> 135
      [] dy = 1  /\ dx = 0  -> 180
      [] dy = 1  /\ dx = -1 -> -135
      [] dy = 0  /\ dx = -1 -> -90
      [] dy = -1 /\ dx = -1 -> -45

\* 100 * math.cos(math.radians(d)) for d a multiple of 45, rounded
CosDeg(d) ==
    LET a == Abs(d) % 360
        b == IF a > 180 THEN 360 - a ELSE a
    IN  CASE b = 0   -> 100
          [] b = 45  -> 71
          [] b = 90  -> 0
          [] b = 135 -> -71
          [] b = 180 -> -100

\* diff in _get_wind_bias
WindDiff(wd, dy, dx) ==
    LET diff == Abs(Bearing(dy, dx) - wd)
    IN  IF diff > 180 THEN 360 - diff ELSE diff

\* Mutant of get_wind_bias: the result is not floored at 0.1.
get_wind_bias_unfloored(wd, ws, dy, dx) ==
    IF ws = 0 THEN 1000
    ELSE 1000 + ws * CosDeg(WindDiff(wd, dy, dx))

get_wind_bias(wd, ws, dy, dx) ==
    IF ws = 0 THEN 1000
    ELSE Max2(100, 1000 + ws * CosDeg(WindDiff(wd, dy, dx)))

--------------------------------------------------------------------------
(* One simulation step *)

\* Denominator of the ignition probability and of the random draws.
ProbDen == 2000 * 1000 * 100

\* prob = self.fire_prob * self._get_wind_bias(dy, dx) * (1 - self.moisture)
Prob(fp, wd, ws, m, dy, dx) == fp * get_wind_bias(wd, ws, dy, dx) * (100 - m)

\* np.random.random() lies in [0, 1): its least and its greatest value.
DrawVals == {0, ProbDen - 1}

InGrid(y, x) == 0 <= y /\ y < GRID_HEIGHT /\ 0 <= x /\ x < GRID_WIDTH

\* np.argwhere(self.grid == CELL_STATES.BURNING)
BurningCells(g) == SelectSeq(RowMajor, LAMBDA c : g[c] = BURNING)

\* Mutant of Visits: the neighbour indices wrap around the edges.
VisitsWrapped(g) ==
    LET b == BurningCells(g)
        n == Len(Offsets)
    IN  [j \in 1 .. Len(b) * n |->
            LET c == b[((j - 1) \div n) + 1]
                o == Offsets[((j - 1) % n) + 1]
            IN  <<(c[1] + o[1]) % GRID_HEIGHT, (c[2] + o[2]) % GRID_WIDTH,
                  o[1], o[2]>>]

\* Every (burning cell, offset) pair in loop order, as <<ny, nx, dy, dx>>.
Visits(g) ==
    LET b == BurningCells(g)
        n == Len(Offsets)
    IN  [j \in 1 .. Len(b) * n |->
            LET c == b[((j - 1) \div n) + 1]
                o == Offsets[((j - 1) % n) + 1]
            IN  <<c[1] + o[1], c[2] + o[2], o[1], o[2]>>]

\* The visits that pass the test of line 283: each draws one random number.
Trials(g) ==
    SelectSeq(Visits(g),
              LAMBDA v : InGrid(v[1], v[2]) /\ g[<<v[1], v[2]>>] = TREE)

\* Mutant of ApplyTrials: a failed trial writes TREE, so the last trial
\* on a cell decides.
RECURSIVE ApplyTrialsLastWins(_, _, _, _, _, _, _, _)
ApplyTrialsLastWins(new, trials, draws, k, fp, wd, ws, m) ==
    IF k > Len(trials) THEN new
    ELSE LET v == trials[k]
             hit == draws[k] < Prob(fp, wd, ws, m, v[3], v[4])
             nxt == [new EXCEPT ![<<v[1], v[2]>>] =
                        IF hit THEN BURNING ELSE TREE]
         IN  ApplyTrialsLastWins(nxt, trials, draws, k + 1, fp, wd, ws, m)

\* Lines 284-285 for the trials k, k+1, ...: draws[k] is the k-th draw.
RECURSIVE ApplyTrials(_, _, _, _, _, _, _, _)
ApplyTrials(new, trials, draws, k, fp, wd, ws, m) ==
    IF k > Len(trials) THEN new
    ELSE LET v == trials[k]
             hit == draws[k] < Prob(fp, wd, ws, m, v[3], v[4])
             nxt == IF hit THEN [new EXCEPT ![<<v[1], v[2]>>] = BURNING]
                    ELSE new
         IN  ApplyTrials(nxt, trials, draws, k + 1, fp, wd, ws, m)

\* Mutant of BurnOut: the burning cells are not burnt out.
BurnOutSkipped(g) == g

\* Mutant of BurnOut: the new grid starts from zeros and keeps the trees.
BurnOutFromZeros(g) ==
    [c \in DOMAIN g |-> IF g[c] = BURNING THEN BURNT
                        ELSE IF g[c] = TREE THEN TREE ELSE EMPTY]

\* new = self.grid.copy(); new[burning] = BURNT
BurnOut(g) == [c \in DOMAIN g |-> IF g[c] = BURNING THEN BURNT ELSE g[c]]

\* The grid _simulate_step leaves, given the random draws: the trials are
\* listed once, from the old grid, and applied in order to the new one.
simulate_step(g, draws, fp, wd, ws, m) ==
    CHOOSE new \in {ApplyTrials(BurnOut(g), trials, draws, 1, fp, wd, ws, m) :
                       trials \in {Trials(g)}} : TRUE

\* Mutant of StillRunning: running is never cleared.
StillRunningKept(g, r) == r

\* Line 288
StillRunning(g, r) == IF ~AnyCell(g, BURNING) THEN FALSE ELSE r

DrawSeqs(g) == [1 .. Len(Trials(g)) -> DrawVals]

--------------------------------------------------------------------------
(* Forest, ignition and parameter operations *)

\* The grids np.random.choice([EMPTY, TREE], ..., p=[1 - d, d]) can return.
Forests(d) ==
    {f \in [Cells -> {EMPTY, TREE}] :
        \A c \in Cells : (f[c] = TREE => d > 0) /\ (f[c] = EMPTY => d < 10)}

\* Mutant of init_forest: burnt cells survive the re-seeding.
init_forest_keeping_burnt(g, f) ==
    [c \in DOMAIN g |-> IF g[c] = BURNT THEN BURNT ELSE f[c]]

\* _init_forest: the old grid is replaced whole by the drawn forest f.
init_forest(g, f) == f

TreeCells(g) == {c \in DOMAIN g : g[c] = TREE}

\* Mutant of Picks: the draw is with replacement.
PicksWithReplacement(g) ==
    {S \in SUBSET TreeCells(g) :
        S # {} /\ Cardinality(S) <= Min2(3, Cardinality(TreeCells(g)))}

\* np.random.choice(len(trees), min(3, len(trees)), replace=False)
Picks(g) ==
    {S \in SUBSET TreeCells(g) :
        Cardinality(S) = Min2(3, Cardinality(TreeCells(g)))}

\* Lines 246-247: the picked trees are set burning.
start_fire(g, pick) == [c \in DOMAIN g |-> IF c \in pick THEN BURNING ELSE g[c]]

\* Mutant of start_fire_running: running is set whether trees exist or not.
start_fire_running_always(g, r) == TRUE

\* Line 248, reached only when there are trees.
start_fire_running(g, r) == IF TreeCells(g) # {} THEN TRUE ELSE r

\* Mutant of CanIgnite: the cell's state is not tested.
CanIgniteAnyState(g, gy, gx) == InGrid(gy, gx)

\* The test of line 375.
CanIgnite(g, gy, gx) == InGrid(gy, gx) /\ g[<<gy, gx>>] = TREE

\* Mutant of ignite_at: the cell is written without any test.
ignite_at_untested(g, gy, gx) ==
    [c \in DOMAIN g \cup {<<gy, gx>>} |->
        IF c = <<gy, gx>> THEN BURNING ELSE g[c]]

\* Lines 375-376
ignite_at(g, gy, gx) ==
    IF CanIgnite(g, gy, gx) THEN [g EXCEPT ![<<gy, gx>>] = BURNING] ELSE g

\* _sync_params, lines 292-293: slider i is read into parameter i.
SyncedParam(s, i) == s[i]

NoCell == <<-1, -1>>

Did(op) == [op |-> op, cell |-> NoCell]

StepOps == {"step_forward", "tick"}

--------------------------------------------------------------------------
(* Inputs *)

\* Shapes of the grid the driver is explored on: every height x width of
\* at most MaxCells cells that is at least as wide as it is high.
GridShapes ==
    {hw \in (1 .. MaxCells) \X (1 .. MaxCells) :
        hw[1] * hw[2] <= MaxCells /\ hw[1] <= hw[2]}

\* Pixels a click lands on: the second pixel of every column and the first
\* column right of the grid; the top pixel of the window, the second pixel
\* of every row and the first row below the grid.
ClickX == {x * cell_size + 1 : x \in 0 .. GRID_WIDTH}
ClickY == {0} \cup {grid_offset_y + y * cell_size + 1 : y \in 0 .. GRID_HEIGHT}

\* Pointer positions of slider events, as <<slider, half track widths>>:
\* the wind strength slider dragged past its left end.
SliderInputs == {<<2, -1>>}

\* Values _randomize draws for the five sliders, within its sub-ranges.
RandomDraws ==
    {[i \in 0 .. 4 |-> <<8, 0, 9, 0, 45>>[i + 1]]}

--------------------------------------------------------------------------
(* Initial state: ForestFireSimulation.__init__ *)

Init ==
    /\ \E hw \in GridShapes : GRID_HEIGHT = hw[1] /\ GRID_WIDTH = hw[2]
    /\ running = FALSE
    /\ paused = FALSE
    /\ tree_density = 6
    /\ wind_dir = 0
    /\ wind_str = 5
    /\ moisture = 20
    /\ temperature = 25
    /\ fire_prob = 600
    /\ sliders = SliderDefault
    /\ grid \in Forests(tree_density)
    /\ last = Did("init")

--------------------------------------------------------------------------
(* Handlers *)

Shape == <<GRID_HEIGHT, GRID_WIDTH>>
Params == <<tree_density, wind_dir, wind_str, moisture, temperature, fire_prob>>

\* Button "Start Fire"
StartFire ==
    /\ \E pick \in Picks(grid) : grid' = start_fire(grid, pick)
    /\ running' = start_fire_running(grid, running)
    /\ last' = Did("start_fire")
    /\ UNCHANGED <<Shape, paused, sliders, Params>>

\* Button "Reset Forest"
ResetForest ==
    /\ tree_density' = sliders[0]
    /\ \E f \in Forests(tree_density') : grid' = init_forest(grid, f)
    /\ running' = FALSE
    /\ paused' = FALSE
    /\ last' = Did("reset")
    /\ UNCHANGED <<Shape, sliders, wind_dir, wind_str, moisture, temperature,
                   fire_prob>>

\* Button "Play / Pause"
TogglePause ==
    /\ paused' = ~paused
    /\ last' = Did("toggle_pause")
    /\ UNCHANGED <<Shape, grid, running, sliders, Params>>

\* Button "Step Forward"
StepForward ==
    /\ \E draws \in DrawSeqs(grid) :
          grid' = simulate_step(grid, draws, fire_prob, wind_dir, wind_str,
                                moisture)
    /\ running' = StillRunning(grid', running)
    /\ last' = Did("step_forward")
    /\ UNCHANGED <<Shape, paused, sliders, Params>>

\* Button "Randomize": new slider values, _sync_params, _reset_forest
Randomize ==
    /\ sliders' \in RandomDraws
    /\ tree_density' = SyncedParam(sliders', 0)
    /\ wind_dir' = SyncedParam(sliders', 1)
    /\ wind_str' = SyncedParam(sliders', 2)
    /\ moisture' = SyncedParam(sliders', 3)
    /\ temperature' = SyncedParam(sliders', 4)
    /\ fire_prob' = derive_fire_probability(temperature', wind_str', moisture')
    /\ \E f \in Forests(tree_density') : grid' = init_forest(grid, f)
    /\ running' = FALSE
    /\ paused' = FALSE
    /\ last' = Did("randomize")
    /\ UNCHANGED Shape

\* A press or drag on slider i with the pointer at position t
SliderEvent(i, t) ==
    /\ sliders' = [sliders EXCEPT ![i] = update_val(i, t)]
    /\ last' = Did("slider")
    /\ UNCHANGED <<Shape, grid, running, paused, Params>>

\* A left click at pixel (mx, my): lines 371-377
GridClick(mx, my) ==
    LET gx == mx \div cell_size
        gy == (my - grid_offset_y) \div cell_size
        onGrid == mx < GRID_WIDTH * cell_size
    IN  /\ grid' = IF onGrid THEN ignite_at(grid, gy, gx) ELSE grid
        /\ running' = IF onGrid /\ CanIgnite(grid, gy, gx) THEN TRUE
                      ELSE running
        /\ last' = [op |-> "click",
                    cell |-> IF onGrid /\ InGrid(gy, gx) THEN <<gy, gx>>
                             ELSE NoCell]
        /\ UNCHANGED <<Shape, paused, sliders, Params>>

\* Mutant of ShouldTick: the paused flag is not tested.
ShouldTickIgnoringPause(r, p, due) == r /\ due

\* Line 388: self.running and not self.paused and
\* now - self.last_step > 1000 / SIMULATION_SPEED (due)
ShouldTick(r, p, due) == r /\ ~p /\ due

\* One pass of the loop of run after the events: _sync_params, then the
\* timed step when the interval has passed (due).
Frame(due) ==
    /\ tree_density' = SyncedParam(sliders, 0)
    /\ wind_dir' = SyncedParam(sliders, 1)
    /\ wind_str' = SyncedParam(sliders, 2)
    /\ moisture' = SyncedParam(sliders, 3)
    /\ temperature' = SyncedParam(sliders, 4)
    /\ fire_prob' = derive_fire_probability(temperature', wind_str', moisture')
    /\ IF ShouldTick(running, paused, due)
       THEN /\ \E draws \in DrawSeqs(grid) :
                  grid' = simulate_step(grid, draws, fire_prob', wind_dir',
                                        wind_str', moisture')
            /\ running' = StillRunning(grid', running)
            /\ last' = Did("tick")
       ELSE /\ UNCHANGED <<grid, running>>
            /\ last' = Did("frame")
    /\ UNCHANGED <<Shape, paused, sliders>>

Next ==
    \/ StartFire
    \/ ResetForest
    \/ TogglePause
    \/ StepForward
    \/ Randomize
    \/ \E in \in SliderInputs : SliderEvent(in[1], in[2])
    \/ \E mx \in ClickX, my \in ClickY : GridClick(mx, my)
    \/ \E due \in BOOLEAN : Frame(due)

Spec == Init /\ [][Next]_vars

--------------------------------------------------------------------------
(* One isolated step: step(fire_prob, wind_dir, wind_str, moisture) applied *)
(* once to a forest of trees with a single burning cell, for parameter      *)
(* values given directly by the caller.                                     *)

InitStep ==
    /\ GRID_HEIGHT = StepHeight
    /\ GRID_WIDTH = StepWidth
    /\ \E b \in Cells : grid = [c \in Cells |-> IF c = b THEN BURNING ELSE TREE]
    /\ running = TRUE
    /\ paused = FALSE
    /\ tree_density = 6
    /\ temperature = 25
    /\ wind_dir = 0
    /\ wind_str \in {0, 10}
    /\ moisture \in {0, 20}
    /\ fire_prob \in {600, 2000}
    /\ sliders = [SliderDefault EXCEPT ![2] = wind_str, ![3] = moisture]
    /\ last = Did("init")

NextStep == last.op = "init" /\ StepForward

SpecStep == InitStep /\ [][NextStep]_vars

--------------------------------------------------------------------------
(* The sliders alone: every slider dragged past either end of its track,   *)
(* Randomize, Reset Forest and the frame's _sync_params, on a single cell. *)

\* Pointer positions in half track widths: left of the track, right of it.
PointerPositions == {-1, 3}

InitSliders == Init /\ GRID_HEIGHT = 1 /\ GRID_WIDTH = 1

NextSliders ==
    \/ \E i \in 0 .. 4, t \in PointerPositions : SliderEvent(i, t)
    \/ Randomize
    \/ ResetForest
    \/ \E due \in BOOLEAN : Frame(due)

SpecSliders == InitSliders /\ [][NextSliders]_vars

--------------------------------------------------------------------------
(* _sync_params and _get_wind_bias as functions of the slider values: the  *)
(* sliders hold any values of their ranges when the first frame reads them. *)

\* Slider values: wind direction in steps of 45 degrees, wind strength in
\* tenths, moisture in steps of 0.1, temperature in steps of 5 degrees.
SliderValues ==
    {[i \in 0 .. 4 |-> <<SliderDefault[0], d, w, m, t>>[i + 1]] :
        d \in {45 * k : k \in 0 .. 8}, w \in 0 .. 10,
        m \in {10 * k : k \in 0 .. 5}, t \in {5 * k : k \in 0 .. 10}}

InitParams ==
    /\ GRID_HEIGHT = 1
    /\ GRID_WIDTH = 1
    /\ running = FALSE
    /\ paused = FALSE
    /\ tree_density = 6
    /\ wind_dir = 0
    /\ wind_str = 5
    /\ moisture = 20
    /\ temperature = 25
    /\ fire_prob = 600
    /\ sliders \in SliderValues
    /\ grid \in Forests(tree_density)
    /\ last = Did("init")

NextParams == \E due \in BOOLEAN : Frame(due)

SpecParams == InitParams /\ [][NextParams]_vars

--------------------------------------------------------------------------
(* A fire left to itself: from any grid the handlers can produce, with the *)
(* default parameters synced, only Step Forward and the frames of the loop *)
(* run, and Step Forward keeps being pressed.                              *)

InitBurn ==
    /\ \E hw \in GridShapes : GRID_HEIGHT = hw[1] /\ GRID_WIDTH = hw[2]
    /\ grid \in [Cells -> CELL_STATES]
    /\ running = AnyCell(grid, BURNING)
    /\ paused = FALSE
    /\ sliders = SliderDefault
    /\ tree_density = SyncedParam(sliders, 0)
    /\ wind_dir = SyncedParam(sliders, 1)
    /\ wind_str = SyncedParam(sliders, 2)
    /\ moisture = SyncedParam(sliders, 3)
    /\ temperature = SyncedParam(sliders, 4)
    /\ fire_prob = derive_fire_probability(temperature, wind_str, moisture)
    /\ last = Did("frame")

NextBurn ==
    \/ StepForward
    \/ \E due \in BOOLEAN : Frame(due)

SpecBurn == InitBurn /\ [][NextBurn]_vars /\ WF_vars(StepForward)

--------------------------------------------------------------------------
(* Properties *)

\* The in-grid Moore neighbours of cell c: no wrap-around at the edges.
Moore(c) ==
    {n \in Cells : n # c /\ Abs(n[1] - c[1]) <= 1 /\ Abs(n[2] - c[2]) <= 1}

Stepped == last.op \in StepOps

\* C1: after any step every cell that was BURNING is BURNT, and a cell is
\* BURNT after the step only if it was BURNING or BURNT before it.
C1_BurningBecomesBurnt ==
    [][last'.op \in StepOps =>
        \A c \in Cells :
            /\ grid[c] = BURNING => grid'[c] = BURNT
            /\ grid'[c] = BURNT => grid[c] \in {BURNING, BURNT}]_vars

\* C1 witness: a step has turned a burning cell into a burnt one.
C1_Witness == Stepped /\ AnyCell(grid, BURNT)

\* C2: a TREE cell becomes BURNING in a step only if one of its in-grid
\* Moore neighbours was BURNING before the step; a TREE cell none of whose
\* neighbours was BURNING stays TREE.
C2_SynchronousSpread ==
    [][last'.op \in StepOps =>
        \A c \in Cells :
            /\ (grid[c] = TREE /\ grid'[c] = BURNING)
                  => \E n \in Moore(c) : grid[n] = BURNING
            /\ (grid[c] = TREE /\ \A n \in Moore(c) : grid[n] # BURNING)
                  => grid'[c] = TREE]_vars

\* C2 witness: after a step a tree still stands beside a cell the step
\* ignited, and none of the tree's neighbours was burning before the step
\* (none of them is burnt now).
C2_Witness ==
    /\ Stepped
    /\ \E c \in Cells :
          /\ grid[c] = TREE
          /\ \E n \in Moore(c) : grid[n] = BURNING
          /\ \A n \in Moore(c) : grid[n] # BURNT

\* C3: whenever a step executes, the parameters it reads are the current
\* slider values and fire_prob is derive_fire_probability of them.
C3_StepReadsCurrentParams ==
    [][last'.op \in StepOps =>
        /\ wind_dir' = sliders'[1]
        /\ wind_str' = sliders'[2]
        /\ moisture' = sliders'[3]
        /\ fire_prob' = derive_fire_probability(sliders'[4], sliders'[2],
                                                sliders'[3])]_vars

\* C4: a step leaves every EMPTY and every BURNT cell as it was.
C4_EmptyBurntFixed ==
    [][last'.op \in StepOps =>
        \A c \in Cells : grid[c] \in {EMPTY, BURNT} => grid'[c] = grid[c]]_vars

\* C4 witness: a step has left a grid that holds empty and burnt cells and
\* nothing else.
C4_Witness ==
    /\ Stepped
    /\ AnyCell(grid, EMPTY)
    /\ AnyCell(grid, BURNT)
    /\ \A c \in Cells : grid[c] \in {EMPTY, BURNT}

\* Every neighbour's ignition probability is at least 1.
AllCertain ==
    \A i \in 1 .. Len(Offsets) :
        Prob(fire_prob, wind_dir, wind_str, moisture,
             Offsets[i][1], Offsets[i][2]) >= ProbDen

Interior(c) ==
    /\ 1 <= c[1] /\ c[1] <= GRID_HEIGHT - 2
    /\ 1 <= c[2] /\ c[2] <= GRID_WIDTH - 2

LoneFire(b) == [c \in Cells |-> IF c = b THEN BURNING ELSE TREE]

Spread(b) ==
    [c \in Cells |-> IF c = b THEN BURNT
                     ELSE IF c \in Moore(b) THEN BURNING ELSE TREE]

\* C5: when every neighbour's ignition probability is at least 1, one step
\* on an all-TREE grid with a single interior BURNING cell sets its eight
\* Moore neighbours BURNING and the cell BURNT, and leaves the rest TREE.
C5_CertainIgnition ==
    [][\A b \in Cells :
          (Interior(b) /\ grid = LoneFire(b) /\ AllCertain
             /\ last'.op \in StepOps)
          => grid' = Spread(b)]_vars

\* C5 witness: such a step has run.
C5_Witness ==
    /\ Stepped
    /\ AllCertain
    /\ \E b \in Cells :
          Interior(b) /\ grid = Spread(b) /\ Cardinality(Moore(b)) = 8
                      /\ AnyCell(grid, TREE)

\* C6: after a step that leaves no BURNING cell, running is false.
C6_RunningClearedWhenOut ==
    (Stepped /\ ~AnyCell(grid, BURNING)) => ~running

\* C6 witness: a step has burnt out the last fire on a grid without trees.
C6_Witness ==
    /\ Stepped
    /\ AnyCell(grid, BURNT)
    /\ ~AnyCell(grid, BURNING)
    /\ ~AnyCell(grid, TREE)
    /\ ~running

\* C7: ignite on a grid without TREE cells changes neither the grid nor
\* the running flag.
C7_IgniteWithoutTrees ==
    [][(last'.op = "start_fire" /\ ~AnyCell(grid, TREE))
          => (grid' = grid /\ running' = running)]_vars

\* C7 witness: ignite has run on a grid without trees (no tree is left and
\* nothing burns) while the simulation was not running.
C7_Witness ==
    /\ last.op = "start_fire"
    /\ ~AnyCell(grid, TREE)
    /\ ~AnyCell(grid, BURNING)
    /\ ~running

\* C8: ignite on a grid with n >= 1 TREE cells turns exactly min(3, n)
\* cells, each of them a TREE, into BURNING, changes no other cell and
\* sets running.
C8_IgniteUpToThree ==
    [][(last'.op = "start_fire" /\ AnyCell(grid, TREE)) =>
        LET changed == {c \in Cells : grid'[c] # grid[c]}
        IN  /\ Cardinality(changed) = Min2(3, CountCells(grid, TREE))
            /\ \A c \in changed : grid[c] = TREE /\ grid'[c] = BURNING
            /\ running']_vars

\* C8 witness: ignite has lit three of at least four trees.
C8_Witness ==
    /\ last.op = "start_fire"
    /\ running
    /\ CountCells(grid, BURNING) = 3
    /\ AnyCell(grid, TREE)
    /\ ~AnyCell(grid, BURNT)

\* C9: a click sets the addressed cell BURNING (and running) only if it is
\* inside the grid and TREE; otherwise grid and running are unchanged.
C9_IgniteAtOnlyTrees ==
    [][last'.op = "click" =>
        IF last'.cell \in Cells /\ grid[last'.cell] = TREE
        THEN grid' = [grid EXCEPT ![last'.cell] = BURNING] /\ running'
        ELSE grid' = grid /\ running' = running]_vars

\* C9 witness: a click outside the grid has left a grid with trees not
\* running.
C9_Witness ==
    /\ last.op = "click"
    /\ last.cell = NoCell
    /\ AnyCell(grid, TREE)
    /\ ~running

\* C10: after initialize, reset or randomize every cell is TREE or EMPTY.
C10_FreshForest ==
    last.op \in {"init", "reset", "randomize"}
        => \A c \in Cells : grid[c] \in {EMPTY, TREE}

\* C10 witness: a reset has produced a forest with trees and clearings.
C10_Witness ==
    last.op = "reset" /\ AnyCell(grid, TREE) /\ AnyCell(grid, EMPTY)

--------------------------------------------------------------------------
\* The five stored parameters, in the order of the sliders.
StoredParam(i) ==
    <<tree_density, wind_dir, wind_str, moisture, temperature>>[i + 1]

\* C11, as stated: after any slider inputs and Randomize, every stored
\* parameter is in its range, tree_density in [0.1, 0.9], wind_dir in
\* [0, 360) with 360 excluded, wind_str in [0, 1], moisture in [0, 0.5] and
\* temperature in [0, 50].
C11_ParamsInRange ==
    /\ \A i \in 0 .. 4 :
          /\ SliderMin[i] <= sliders[i] /\ sliders[i] <= SliderMax[i]
          /\ SliderMin[i] <= StoredParam(i) /\ StoredParam(i) <= SliderMax[i]
    /\ sliders[1] < 360
    /\ wind_dir < 360

\* C11, amended: every stored parameter is in the closed range of its
\* slider, an input outside the range is clamped to the nearer end, and
\* wind_dir lies in [0, 360] with 360 included.
C11_ParamsInClosedRange ==
    \A i \in 0 .. 4 :
        /\ SliderMin[i] <= sliders[i] /\ sliders[i] <= SliderMax[i]
        /\ SliderMin[i] <= StoredParam(i) /\ StoredParam(i) <= SliderMax[i]

\* The wind direction slider dragged past its right end and the
\* temperature slider past its left end, both read by _sync_params.
C11_Witness ==
    /\ last.op = "frame"
    /\ wind_dir = 360
    /\ temperature = 0

--------------------------------------------------------------------------
\* C12: fire_prob lies in [0.05, 0.95] in every state, the constructor's
\* value before the first derivation included, for every combination of
\* slider values.
C12_FireProbInRange == 100 <= fire_prob /\ fire_prob <= 1900

\* A derivation whose unclamped value 0.15 - 0.4 * 0.5 is negative.
C12_Witness ==
    /\ last.op = "frame"
    /\ temperature <= 10 /\ wind_str = 0 /\ moisture = 50
    /\ fire_prob = 100

--------------------------------------------------------------------------
\* C13: the fire probability _sync_params derives does not fall when
\* temperature or wind_str is raised and does not rise when moisture is
\* raised, over the whole ranges of the three parameters.
C13_DeriveMonotone ==
    last.op = "frame" =>
        /\ fire_prob = derive_fire_probability(temperature, wind_str, moisture)
        /\ \A t \in temperature .. SliderMax[4] :
              derive_fire_probability(t, wind_str, moisture) >= fire_prob
        /\ \A w \in wind_str .. SliderMax[2] :
              derive_fire_probability(temperature, w, moisture) >= fire_prob
        /\ \A m \in moisture .. SliderMax[3] :
              derive_fire_probability(temperature, wind_str, m) <= fire_prob

\* A derivation at a temperature below 10, where temp_factor is clamped,
\* whose result is above the lower clamp.
C13_Witness ==
    /\ last.op = "frame"
    /\ temperature < 10
    /\ moisture > 0
    /\ fire_prob > 100

--------------------------------------------------------------------------
\* The bias and the diff of the k-th neighbour offset under the stored wind.
BiasOf(k) == get_wind_bias(wind_dir, wind_str, Offsets[k][1], Offsets[k][2])
DiffOf(k) == WindDiff(wind_dir, Offsets[k][1], Offsets[k][2])

\* C14: the wind bias is exactly 1.0 for all eight offsets when wind_str is
\* 0; when wind_str is positive the bias of a neighbour fully downwind
\* (diff = 0) is strictly above that of a neighbour fully upwind
\* (diff = 180); the bias is never below 0.1.
C14_WindBias ==
    \A j \in 1 .. Len(Offsets) :
        /\ BiasOf(j) >= 100
        /\ wind_str = 0 => BiasOf(j) = 1000
        /\ \A k \in 1 .. Len(Offsets) :
              wind_str > 0 /\ DiffOf(j) = 0 /\ DiffOf(k) = 180
                  => BiasOf(j) > BiasOf(k)

\* The strongest wind, blowing to the west: the neighbour to the west is
\* fully downwind and the neighbour to the east is held at the floor.
C14_Witness ==
    /\ last.op = "frame"
    /\ wind_str = 10 /\ wind_dir = 270
    /\ \E j, k \in 1 .. Len(Offsets) :
          DiffOf(j) = 0 /\ DiffOf(k) = 180 /\ BiasOf(k) = 100

--------------------------------------------------------------------------
\* The shortest angular distance between two directions in degrees.
ShortestAngle(a, b) ==
    LET d == (a - b) % 360
    IN  IF d > 180 THEN 360 - d ELSE d

\* C16: for each of the eight offsets and every wind_dir of the range, the
\* diff computed in _get_wind_bias is the shortest angular distance between
\* the neighbour's direction and wind_dir, and lies in [0, 180]. diff is
\* computed only when wind_str is not 0.
C16_DiffShortest ==
    wind_str > 0 =>
        \A k \in 1 .. Len(Offsets) :
            /\ 0 <= DiffOf(k) /\ DiffOf(k) <= 180
            /\ DiffOf(k) = ShortestAngle(Bearing(Offsets[k][1],
                                                 Offsets[k][2]), wind_dir)

--------------------------------------------------------------------------
\* C15: in every reachable state the grid has GRID_HEIGHT x GRID_WIDTH
\* cells and every cell holds one of the four cell states.
C15_GridWellFormed ==
    /\ DOMAIN grid = CellsOf(GRID_HEIGHT, GRID_WIDTH)
    /\ \A c \in DOMAIN grid : grid[c] \in CELL_STATES

\* A step has left all four cell states on the grid.
C15_Witness ==
    /\ Stepped
    /\ \A s \in CELL_STATES : AnyCell(grid, s)

--------------------------------------------------------------------------
Reverse(s) == [k \in 1 .. Len(s) |-> s[Len(s) + 1 - k]]

\* Those of the trials that test cell c.
TrialsAt(trials, c) ==
    {k \in 1 .. Len(trials) : <<trials[k][1], trials[k][2]>> = c}

\* Whether the k-th of the trials succeeds under the stored parameters.
Hit(trials, draws, k) ==
    draws[k] < Prob(fire_prob, wind_dir, wind_str, moisture,
                    trials[k][3], trials[k][4])

\* C17: whatever the random draws of a step, a TREE cell ends the step
\* BURNING exactly when at least one of the trials of its burning
\* neighbours succeeds: a later failed trial does not revert an earlier
\* success, and visiting the trials in the opposite order gives the same
\* grid.
C17_AnyTrialIgnites ==
    LET trials == Trials(grid)
    IN  \A draws \in DrawSeqs(grid) :
            LET new == simulate_step(grid, draws, fire_prob, wind_dir,
                                     wind_str, moisture)
            IN  /\ \A c \in Cells :
                      grid[c] = TREE =>
                          (new[c] = BURNING <=>
                              \E k \in TrialsAt(trials, c) :
                                  Hit(trials, draws, k))
                /\ ApplyTrials(BurnOut(grid), Reverse(trials),
                               Reverse(draws), 1, fire_prob, wind_dir,
                               wind_str, moisture) = new

\* A step has left a TREE cell with two burning neighbours, of whose
\* trials the earlier can succeed and the later can fail.
C17_Witness ==
    /\ Stepped
    /\ \E c \in Cells :
          /\ grid[c] = TREE
          /\ \E j, k \in TrialsAt(Trials(grid), c) :
                /\ j < k
                /\ \E draws \in DrawSeqs(grid) :
                      Hit(Trials(grid), draws, j)
                      /\ ~Hit(Trials(grid), draws, k)

--------------------------------------------------------------------------
\* C18: in every state reachable through the handlers, running is true
\* exactly when the grid has at least one BURNING cell.
C18_RunningIffBurning == running <=> AnyCell(grid, BURNING)

\* A paused simulation with a fire on the grid.
C18_Witness ==
    /\ last.op = "toggle_pause"
    /\ paused
    /\ running
    /\ AnyCell(grid, BURNING)

--------------------------------------------------------------------------
SetMax(S) == CHOOSE x \in S : \A y \in S : y <= x

\* The largest number of steps, over all random draws, after which grid g
\* has no BURNING cell, under the stored parameters.
RECURSIVE MaxBurnSteps(_)
MaxBurnSteps(g) ==
    IF ~AnyCell(g, BURNING) THEN 0
    ELSE 1 + SetMax({MaxBurnSteps(simulate_step(g, draws, fire_prob, wind_dir,
                                                wind_str, moisture)) :
                        draws \in DrawSeqs(g)})

\* C19: with no ignition, reset or randomize, repeated steps reach a grid
\* with no BURNING cell, after at most the number of TREE cells plus one
\* steps; from then on running is false and a step leaves the grid as it
\* is.
C19_FireDiesOut ==
    /\ [](MaxBurnSteps(grid) <= CountCells(grid, TREE) + 1)
    /\ [][last'.op \in StepOps /\ ~AnyCell(grid, BURNING)
             => grid' = grid /\ ~running']_vars
    /\ <>[](~AnyCell(grid, BURNING) /\ ~running)

\* A step has put out the last fire after burning every tree.
C19_Witness ==
    /\ Stepped
    /\ ~running
    /\ ~AnyCell(grid, BURNING)
    /\ ~AnyCell(grid, TREE)
    /\ CountCells(grid, BURNT) >= 3

--------------------------------------------------------------------------
\* C20: a step, Start Fire and a click on the grid only move cells forward,
\* TREE to BURNING to BURNT: they leave the EMPTY cells as they are, turn no
\* BURNING or BURNT cell into TREE and no BURNT cell into BURNING; only
\* Reset Forest and Randomize, which re-seed the forest, do.
C20_ForwardOnly ==
    [][last'.op \notin {"reset", "randomize"} =>
          \A c \in Cells :
              /\ grid[c] = EMPTY <=> grid'[c] = EMPTY
              /\ grid[c] \in {BURNING, BURNT} => grid'[c] # TREE
              /\ grid[c] = BURNT => grid'[c] # BURNING
              /\ grid'[c] >= grid[c]]_vars

\* A click on a BURNT cell next to a click-ignited fire has left it BURNT.
C20_Witness ==
    /\ last.op = "click"
    /\ last.cell # NoCell
    /\ grid[last.cell] = BURNT
    /\ AnyCell(grid, BURNING)

--------------------------------------------------------------------------
\* C21: the timed step of the loop runs only when running is true and
\* paused is false: a frame taken while paused, or while not running,
\* leaves the grid as it is. Step Forward applies one step whatever the
\* two flags are: every BURNING cell is BURNT afterwards and every change
\* is one a step makes. Reset Forest and Randomize clear both flags.
C21_TickGated ==
    [][/\ last'.op \in {"frame", "tick"} /\ (paused \/ ~running)
            => grid' = grid /\ last'.op = "frame"
       /\ last'.op = "tick" => running /\ ~paused
       /\ last'.op = "step_forward"
            => /\ \A c \in Cells : grid[c] = BURNING => grid'[c] = BURNT
               /\ \E draws \in DrawSeqs(grid) :
                     grid' = simulate_step(grid, draws, fire_prob, wind_dir,
                                           wind_str, moisture)
       /\ last'.op \in {"reset", "randomize"} => ~running' /\ ~paused']_vars

\* A frame has passed while a fire is paused.
C21_Witness ==
    /\ last.op = "frame"
    /\ paused
    /\ running
    /\ AnyCell(grid, BURNING)

==========================================================================
